---- MODULE Spec2Model ----
(***************************************************************************)
(* ShellArt: a model of the terminal session loop (run_terminal_mode and   *)
(* get_frame_data of src/main.rs) and of the pure rendering helpers        *)
(* (CharSet::next, calculate_block_size, the glyph index of assign_chars,  *)
(* the Rainbow hue of get_color in src/main.rs; block_color and            *)
(* get_blocks_data in src/utils.rs).                                       *)
(*                                                                         *)
(* Spec is the session loop.  The pure helpers are exercised by their own  *)
(* specifications (SpecCharSet, SpecRainbow, SpecGlyph, SpecBlockSize,     *)
(* SpecSampler), whose Init draws the arguments and whose actions apply    *)
(* the helper; they keep their arguments in `call` and the result in `ret`.*)
(***************************************************************************)
EXTENDS Integers, Sequences, FiniteSets, TLC

VARIABLES
    pc,           \* position in run_terminal_mode / get_frame_data
    result,       \* what run_terminal_mode returned ("running" before it returns)
    term,         \* the terminal: raw mode, alternate screen, cursor hidden
    args,         \* Args: charset, mode, width, flip (main.rs:97-126)
    width,        \* local `width` (main.rs:349)
    show_ui,      \* local `show_ui` (main.rs:350)
    key,          \* what the poll of this iteration consumed
    iter,         \* loop iterations started
    temp_frame,   \* get_frame_data's local temp_frame (main.rs:143)
    frame,        \* local `frame` of run_terminal_mode (main.rs:351)
    call_reads,   \* cam.read calls of the current get_frame_data call
    call_seeks,   \* cam.set(POS_FRAMES, 0) calls of the current get_frame_data call
    cam_reads,    \* cam.read calls of the whole session
    ascii_data,   \* dimensions of the grid assign_chars built this iteration
    display,      \* grids written to stdout so far
    frame_count,  \* local `frame_count`, a usize, as its bits
    call,         \* arguments of the pure helper under test
    ret           \* result of the pure helper under test

vars == <<pc, result, term, args, width, show_ui, key, iter, temp_frame, frame,
          call_reads, call_seeks, cam_reads, ascii_data, display, frame_count,
          call, ret>>

sessionVars == <<pc, result, term, args, width, show_ui, key, iter, temp_frame,
                 frame, call_reads, call_seeks, cam_reads, ascii_data, display>>

(***************************************************************************)
(* Bounds of the model.                                                    *)
(***************************************************************************)
MaxIter == 2          \* loop iterations of one session
MaxImgW == 40         \* source widths given to calculate_block_size
MaxTargetW == 40      \* target widths given to calculate_block_size
LumDenom == 1         \* luminances are the multiples of 1/LumDenom in [0,255]
MaxGridX == 3         \* grid columns at which the Rainbow hue is taken
MaxGridY == 3         \* grid rows at which the Rainbow hue is taken
MaxTicks == 3         \* frame-counter increments followed from each start
MaxBufW == 3          \* pixel-buffer widths given to get_blocks_data
MaxBufH == 3          \* pixel-buffer heights given to get_blocks_data
MaxBlock == 2         \* block widths and heights given to get_blocks_data

(***************************************************************************)
(* Program constants.                                                      *)
(***************************************************************************)
MinWidth == 10
MaxWidth == 500
WidthStep == 2
UsizeBits == 64
HueStep == 5
HuePeriod == 360
LumScale == 256

Min(a, b) == IF a <= b THEN a ELSE b
Max(a, b) == IF a >= b THEN a ELSE b

(***************************************************************************)
(* CharSet and ArtMode (main.rs:16-95).                                    *)
(***************************************************************************)
CharSets == {"Retro", "Default", "Light", "Detailed", "Blocks", "Binary",
             "Minimalist", "Modern", "Slashed", "Testing", "Testing2"}

CharSetNext_SkipRetro(c) ==
    CASE c = "Retro" -> "Default"
      [] c = "Default" -> "Light"
      [] c = "Light" -> "Detailed"
      [] c = "Detailed" -> "Blocks"
      [] c = "Blocks" -> "Binary"
      [] c = "Binary" -> "Minimalist"
      [] c = "Minimalist" -> "Modern"
      [] c = "Modern" -> "Slashed"
      [] c = "Slashed" -> "Testing"
      [] c = "Testing" -> "Testing2"
      [] c = "Testing2" -> "Default"

CharSetNext(c) ==
    CASE c = "Retro" -> "Default"
      [] c = "Default" -> "Light"
      [] c = "Light" -> "Detailed"
      [] c = "Detailed" -> "Blocks"
      [] c = "Blocks" -> "Binary"
      [] c = "Binary" -> "Minimalist"
      [] c = "Minimalist" -> "Modern"
      [] c = "Modern" -> "Slashed"
      [] c = "Slashed" -> "Testing"
      [] c = "Testing" -> "Testing2"
      [] c = "Testing2" -> "Retro"

\* number of chars of CharSet::get_chars
CharCount(c) ==
    CASE c = "Retro" -> 5
      [] c = "Default" -> 9
      [] c = "Testing" -> 3
      [] c = "Light" -> 69
      [] c = "Blocks" -> 9
      [] c = "Binary" -> 2
      [] c = "Minimalist" -> 4
      [] c = "Modern" -> 10
      [] c = "Slashed" -> 4
      [] c = "Testing2" -> 2
      [] c = "Detailed" -> 63

ArtModes == {"Standard", "Grayscale", "Matrix", "Thermal", "Amber", "Neon",
             "Rainbow", "Cga", "Glitch"}

ArtModeNext(m) ==
    CASE m = "Standard" -> "Grayscale"
      [] m = "Grayscale" -> "Matrix"
      [] m = "Matrix" -> "Thermal"
      [] m = "Thermal" -> "Amber"
      [] m = "Amber" -> "Neon"
      [] m = "Neon" -> "Rainbow"
      [] m = "Rainbow" -> "Cga"
      [] m = "Cga" -> "Glitch"
      [] m = "Glitch" -> "Standard"

(***************************************************************************)
(* usize, as the function of its bits (bit 0 is the least significant).    *)
(***************************************************************************)
BitIdx == 0 .. (UsizeBits - 1)

UsizeZero == [i \in BitIdx |-> 0]
UsizeMaxVal == [i \in BitIdx |-> 1]

\* the usize of a natural below 2^30
UsizeOf(n) == [i \in BitIdx |-> IF i < 30 THEN (n \div (2 ^ i)) % 2 ELSE 0]

\* usize::MAX - n, for a natural n below 2^30
UsizeMaxMinus(n) == [i \in BitIdx |-> 1 - UsizeOf(n)[i]]

WrappingAdd1_Saturating(b) ==
    IF \A i \in BitIdx : b[i] = 1
    THEN b
    ELSE LET z == CHOOSE i \in BitIdx : b[i] = 0 /\ \A j \in 0 .. (i - 1) : b[j] = 1
         IN  [i \in BitIdx |-> IF i < z THEN 0 ELSE IF i = z THEN 1 ELSE b[i]]

\* usize::wrapping_add(1) (main.rs:425)
WrappingAdd1(b) ==
    IF \A i \in BitIdx : b[i] = 1
    THEN UsizeZero
    ELSE LET z == CHOOSE i \in BitIdx : b[i] = 0 /\ \A j \in 0 .. (i - 1) : b[j] = 1
         IN  [i \in BitIdx |-> IF i < z THEN 0 ELSE IF i = z THEN 1 ELSE b[i]]

(***************************************************************************)
(* f32 arithmetic on the non-negative integers the Rainbow hue is made of. *)
(* A value is [m, e], standing for m * 2^e with m < 2^24, and m >= 2^23    *)
(* when e > 0; every operation rounds to nearest, ties to even, as IEEE    *)
(* 754 binary32 does.                                                      *)
(***************************************************************************)
F32Mant == 24

\* number of bits of a natural below 2^30
BitLen(v) == CHOOSE n \in 0 .. 30 : v < 2 ^ n /\ (n = 0 \/ v >= 2 ^ (n - 1))

\* The f32 nearest to V * 2^d + rem, where 0 <= rem < 2^d and r tells where rem
\* lies: 0 (rem = 0), 1 (below half of 2^d), 2 (half), 3 (above half).
RoundF32(V, d, r) ==
    LET L == BitLen(V)
        t == Max(0, L - F32Mant)
        m0 == V \div (2 ^ t)
        low == V % (2 ^ t)
        half == IF t > 0 THEN 2 ^ (t - 1) ELSE 0
        up == IF t = 0
              THEN r = 3 \/ (r = 2 /\ m0 % 2 = 1)
              ELSE low > half \/ (low = half /\ (r > 0 \/ m0 % 2 = 1))
        m1 == m0 + (IF up THEN 1 ELSE 0)
    IN  IF m1 = 2 ^ F32Mant
        THEN [m |-> 2 ^ (F32Mant - 1), e |-> d + t + 1]
        ELSE [m |-> m1, e |-> d + t]

RECURSIVE BitsVal(_, _, _)
\* the number written by bits lo..hi of b
BitsVal(b, lo, hi) == IF hi < lo THEN 0 ELSE b[lo] + 2 * BitsVal(b, lo + 1, hi)

\* `n as f32` for a natural below 2^30 (x as f32, y as f32: main.rs:293)
NatAsF32(n) == RoundF32(n, 0, 0)

\* `frame_count as f32` (main.rs:293)
UsizeAsF32(b) ==
    LET L == IF \A i \in BitIdx : b[i] = 0 THEN 0
             ELSE 1 + CHOOSE i \in BitIdx : b[i] = 1 /\ \A j \in (i + 1) .. (UsizeBits - 1) : b[j] = 0
        d == Max(0, L - 28)
        sticky == \E i \in 0 .. (d - 1) : b[i] = 1
    IN  RoundF32(BitsVal(b, d, L - 1), d, IF sticky THEN 1 ELSE 0)

\* f * k for a small natural k (the products by 2.0, 4.0 and 5.0 of main.rs:293)
F32Mul(f, k) == RoundF32(f.m * k, f.e, 0)

\* f + g, where the operand of the smaller exponent is below 2^30
F32Add(f, g) ==
    LET lo == IF f.e <= g.e THEN f ELSE g
        hi == IF f.e <= g.e THEN g ELSE f
        d == hi.e - lo.e
    IN  IF d <= 5
        THEN RoundF32(lo.m + hi.m * (2 ^ d), lo.e, 0)
        ELSE LET q == IF d <= F32Mant THEN lo.m \div (2 ^ d) ELSE 0
                 rem == IF d <= F32Mant THEN lo.m % (2 ^ d) ELSE lo.m
                 r == IF rem = 0 THEN 0
                      ELSE IF d > F32Mant \/ 2 * rem < 2 ^ d THEN 1
                      ELSE IF 2 * rem = 2 ^ d THEN 2 ELSE 3
             IN  RoundF32(hi.m + q, hi.e, r)

RECURSIVE Pow2Mod(_, _)
Pow2Mod(e, n) == IF e = 0 THEN 1 % n ELSE (2 * Pow2Mod(e - 1, n)) % n

\* f % n (the f32 remainder is exact), as a natural below n
F32Rem(f, n) == ((f.m % n) * Pow2Mod(f.e, n)) % n

\* the hue of ArtMode::Rainbow in get_color (main.rs:293)
RainbowHue(x, y, fc) ==
    F32Rem(F32Add(F32Add(F32Mul(NatAsF32(x), 2), F32Mul(NatAsF32(y), 4)),
                  F32Mul(UsizeAsF32(fc), HueStep)),
           HuePeriod)

(***************************************************************************)
(* calculate_block_size.  The f32 quotient img_width / width is kept as    *)
(* the fraction it is: within the widths modelled (below 2^11) the f32     *)
(* rounding of the quotient is smaller than its distance to the nearest    *)
(* half-integer, so f32::round sees the same side of it.                   *)
(***************************************************************************)
\* f32::round of p/q >= 0: nearest integer, halves away from zero
RoundFrac(p, q) == (2 * p + q) \div (2 * q)

\* main.rs:164-169
CalculateBlockSize_NoFloor(img_width, w) ==
    LET t == Max(w, 1)
    IN  <<RoundFrac(img_width, t), RoundFrac(2 * img_width, t)>>

CalculateBlockSize_HalvesHeight(img_width, w) ==
    LET t == Max(w, 1)
        p == IF img_width >= t THEN img_width ELSE 1
        q == IF img_width >= t THEN t ELSE 1
    IN  <<RoundFrac(p, q), RoundFrac(Max(p, 2 * q), 2 * q)>>

CalculateBlockSize(img_width, w) ==
    LET t == Max(w, 1)
        \* block_w = (img_width / width.max(1)).max(1.0), as the fraction p/q
        p == IF img_width >= t THEN img_width ELSE 1
        q == IF img_width >= t THEN t ELSE 1
    IN  \* block_h = (block_w / 0.5).max(1.0) = 2 * block_w
        <<RoundFrac(p, q), RoundFrac(Max(2 * p, q), q)>>

\* utils.rs:74-82 (width >= 1)
UtilsCalculateBlockSize(img_width, w) ==
    <<RoundFrac(Max(img_width, w), w), RoundFrac(Max(2 * img_width, w), w)>>

(***************************************************************************)
(* assign_chars (main.rs:171-223): the glyph index and the grid's size.    *)
(***************************************************************************)
\* index of the luminance k / LumDenom with char_count glyphs (main.rs:213-214)
GlyphIndex_Div255NoCap(k, char_count) == (k * char_count) \div (255 * LumDenom)

GlyphIndex(k, char_count) ==
    Min((k * char_count) \div (LumScale * LumDenom), char_count - 1)

EmptyFrame == [w |-> 0, h |-> 0, mirror |-> FALSE]
IsEmpty(f) == f.w = 0 \/ f.h = 0

\* <<columns, rows>> of ascii_data after assign_chars(.., frame, w) returned Ok
AssignChars(f, w) ==
    IF IsEmpty(f) THEN <<0, 0>>
    ELSE LET bs == CalculateBlockSize(f.w, w)
             target_width == f.w \div bs[1]
             target_height == f.h \div bs[2]
         IN  IF target_width <= 0 \/ target_height <= 0
             THEN <<0, 0>>
             ELSE <<target_width, target_height>>

(***************************************************************************)
(* The terminal session: run_terminal_mode (main.rs:343-433) with          *)
(* get_frame_data (main.rs:138-162) inlined at its call (main.rs:370).     *)
(* A `?` on an Err returns from run_terminal_mode at once: Return(e).      *)
(***************************************************************************)
TermRestored == [raw |-> FALSE, alt |-> FALSE, cursor_hidden |-> FALSE]

QuitKeys == {"q", "Esc"}
WidenKeys == {"+", "="}
NarrowKeys == {"-", "_"}

\* --width values the sessions modelled start from (any i32 is accepted, main.rs:107-109)
StartWidths == {MinWidth, MinWidth + 1, 150, MaxWidth - 1, MaxWidth, MaxWidth + 100}

\* what cam.read can put into temp_frame when it does not fail
CameraFrames == {[w |-> 4, h |-> 4, mirror |-> FALSE],
                 [w |-> 640, h |-> 480, mirror |-> FALSE]}
ReadOutcomes == {EmptyFrame} \cup CameraFrames

Init ==
    /\ pc = "enable_raw"
    /\ result = "running"
    /\ term = TermRestored
    /\ args \in [charset : {"Default"}, mode : {"Standard"},
                 width : StartWidths, flip : BOOLEAN]
    /\ width = args.width
    /\ show_ui = TRUE
    /\ key = "none"
    /\ iter = 0
    /\ temp_frame = EmptyFrame
    /\ frame = EmptyFrame
    /\ call_reads = 0
    /\ call_seeks = 0
    /\ cam_reads = 0
    /\ ascii_data = <<0, 0>>
    /\ display = 0
    /\ frame_count = UsizeZero
    /\ call = <<>>
    /\ ret = <<>>

\* an early return of run_terminal_mode with Err(e): nothing else runs
Return(e) ==
    /\ pc' = "done"
    /\ result' = e

\* main.rs:345
EnableRawMode ==
    /\ pc = "enable_raw"
    /\ \/ /\ term' = [term EXCEPT !.raw = TRUE]
          /\ pc' = "enter_alt"
          /\ UNCHANGED result
       \/ /\ Return("ErrIo")
          /\ UNCHANGED term
    /\ UNCHANGED <<args, width, show_ui, key, iter, temp_frame, frame, call_reads,
                   call_seeks, cam_reads, ascii_data, display, frame_count, call, ret>>

\* main.rs:346
EnterAlternateScreen ==
    /\ pc = "enter_alt"
    /\ \/ /\ term' = [term EXCEPT !.alt = TRUE]
          /\ pc' = "hide_cursor"
          /\ UNCHANGED result
       \/ /\ Return("ErrIo")
          /\ UNCHANGED term
    /\ UNCHANGED <<args, width, show_ui, key, iter, temp_frame, frame, call_reads,
                   call_seeks, cam_reads, ascii_data, display, frame_count, call, ret>>

\* main.rs:347-353
HideCursor ==
    /\ pc = "hide_cursor"
    /\ \/ /\ term' = [term EXCEPT !.cursor_hidden = TRUE]
          /\ pc' = "poll"
          /\ UNCHANGED result
       \/ /\ Return("ErrIo")
          /\ UNCHANGED term
    /\ UNCHANGED <<args, width, show_ui, key, iter, temp_frame, frame, call_reads,
                   call_seeks, cam_reads, ascii_data, display, frame_count, call, ret>>

\* what every outcome of the poll at the top of an iteration shares
Polled(k) ==
    /\ pc = "poll"
    /\ iter < MaxIter
    /\ iter' = iter + 1
    /\ key' = k
    /\ UNCHANGED <<term, temp_frame, frame, call_reads, call_seeks, cam_reads,
                   ascii_data, display, frame_count, call, ret>>

\* main.rs:356-357: event::poll or event::read fails
PollFails ==
    /\ Polled("none")
    /\ Return("ErrIo")
    /\ UNCHANGED <<args, width, show_ui>>

PollNoEvent_TogglesUi ==
    /\ Polled("none")
    /\ pc' = "read1"
    /\ show_ui' = ~show_ui
    /\ UNCHANGED <<result, args, width>>

\* main.rs:356: no event within the millisecond
PollNoEvent ==
    /\ Polled("none")
    /\ pc' = "read1"
    /\ UNCHANGED <<result, args, width, show_ui>>

KeyQuit_FallsThrough ==
    /\ \E k \in QuitKeys : Polled(k)
    /\ pc' = "read1"
    /\ UNCHANGED <<result, args, width, show_ui>>

\* main.rs:359
KeyQuit ==
    /\ \E k \in QuitKeys : Polled(k)
    /\ pc' = "show_cursor"
    /\ UNCHANGED <<result, args, width, show_ui>>

\* main.rs:360
KeyMode ==
    /\ Polled("m")
    /\ args' = [args EXCEPT !.mode = ArtModeNext(@)]
    /\ pc' = "read1"
    /\ UNCHANGED <<result, width, show_ui>>

\* main.rs:361
KeyCharset ==
    /\ Polled("c")
    /\ args' = [args EXCEPT !.charset = CharSetNext(@)]
    /\ pc' = "read1"
    /\ UNCHANGED <<result, width, show_ui>>

\* main.rs:362
KeyWiden ==
    /\ \E k \in WidenKeys : Polled(k)
    /\ width' = Min(width + WidthStep, MaxWidth)
    /\ pc' = "read1"
    /\ UNCHANGED <<result, args, show_ui>>

\* main.rs:363
KeyNarrow ==
    /\ \E k \in NarrowKeys : Polled(k)
    /\ width' = Max(width - WidthStep, MinWidth)
    /\ pc' = "read1"
    /\ UNCHANGED <<result, args, show_ui>>

\* main.rs:364
KeyToggleUi ==
    /\ Polled("h")
    /\ show_ui' = ~show_ui
    /\ pc' = "read1"
    /\ UNCHANGED <<result, args, width>>

\* main.rs:357, 365: any other key, or an event that is no key
OtherEvent ==
    /\ Polled("other")
    /\ pc' = "read1"
    /\ UNCHANGED <<result, args, width, show_ui>>

\* get_frame_data, main.rs:143-146: a fresh temp_frame and the first read
Read1 ==
    /\ pc = "read1"
    /\ call_reads' = 1
    /\ call_seeks' = 0
    /\ cam_reads' = cam_reads + 1
    /\ \/ \E r \in ReadOutcomes :
             /\ temp_frame' = r
             /\ pc' = IF IsEmpty(r) THEN "read2" ELSE "store"
             /\ UNCHANGED result
       \/ /\ Return("ErrCapture")
          /\ temp_frame' = EmptyFrame
    /\ UNCHANGED <<term, args, width, show_ui, key, iter, frame, ascii_data,
                   display, frame_count, call, ret>>

SeekRead2_RetriesAgain ==
    /\ pc = "read2"
    /\ call_seeks' = call_seeks + 1
    /\ call_reads' = call_reads + 1
    /\ cam_reads' = cam_reads + 1
    /\ \/ \E r \in ReadOutcomes :
             /\ temp_frame' = r
             /\ pc' = IF IsEmpty(r) THEN "read2" ELSE "store"
             /\ UNCHANGED result
       \/ /\ Return("ErrCapture")
          /\ temp_frame' = EmptyFrame
    /\ UNCHANGED <<term, args, width, show_ui, key, iter, frame, ascii_data,
                   display, frame_count, call, ret>>

\* get_frame_data, main.rs:148-152: seek to frame 0 (its result dropped), the
\* second read, and the return of Ok(()) when that read is empty too
SeekRead2 ==
    /\ pc = "read2"
    /\ call_seeks' = call_seeks + 1
    /\ call_reads' = call_reads + 1
    /\ cam_reads' = cam_reads + 1
    /\ \/ \E r \in ReadOutcomes :
             /\ temp_frame' = r
             /\ pc' = IF IsEmpty(r) THEN "check" ELSE "store"
             /\ UNCHANGED result
       \/ /\ Return("ErrCapture")
          /\ temp_frame' = EmptyFrame
    /\ UNCHANGED <<term, args, width, show_ui, key, iter, frame, ascii_data,
                   display, frame_count, call, ret>>

\* get_frame_data, main.rs:155-161
StoreFrame ==
    /\ pc = "store"
    /\ \/ /\ args.flip
          /\ frame' = [temp_frame EXCEPT !.mirror = TRUE]
          /\ pc' = "check"
          /\ UNCHANGED result
       \/ /\ args.flip
          /\ Return("ErrCapture")
          /\ UNCHANGED frame
       \/ /\ ~args.flip
          /\ frame' = temp_frame
          /\ pc' = "check"
          /\ UNCHANGED result
    /\ UNCHANGED <<term, args, width, show_ui, key, iter, temp_frame, call_reads,
                   call_seeks, cam_reads, ascii_data, display, frame_count, call, ret>>

\* main.rs:372-374
CheckFrame ==
    /\ pc = "check"
    /\ pc' = IF IsEmpty(frame) THEN "poll" ELSE "assign"
    /\ UNCHANGED <<result, term, args, width, show_ui, key, iter, temp_frame, frame,
                   call_reads, call_seeks, cam_reads, ascii_data, display,
                   frame_count, call, ret>>

\* main.rs:376-379
CallAssignChars ==
    /\ pc = "assign"
    /\ \/ /\ ascii_data' = AssignChars(frame, width)
          /\ pc' = "draw"
          /\ UNCHANGED result
       \/ /\ Return("ErrRender")
          /\ UNCHANGED ascii_data
    /\ UNCHANGED <<term, args, width, show_ui, key, iter, temp_frame, frame,
                   call_reads, call_seeks, cam_reads, display, frame_count, call, ret>>

\* main.rs:382-399: the cursor move and the grid's cells go to stdout
DrawGrid ==
    /\ pc = "draw"
    /\ \/ /\ display' = display + 1
          /\ pc' = "ui"
          /\ UNCHANGED result
       \/ /\ Return("ErrIo")
          /\ UNCHANGED display
    /\ UNCHANGED <<term, args, width, show_ui, key, iter, temp_frame, frame,
                   call_reads, call_seeks, cam_reads, ascii_data, frame_count,
                   call, ret>>

\* main.rs:401-422
DrawUi ==
    /\ pc = "ui"
    /\ \/ /\ pc' = "flush"
          /\ UNCHANGED result
       \/ /\ show_ui
          /\ Return("ErrIo")
    /\ UNCHANGED <<term, args, width, show_ui, key, iter, temp_frame, frame,
                   call_reads, call_seeks, cam_reads, ascii_data, display,
                   frame_count, call, ret>>

\* main.rs:424-425
Flush ==
    /\ pc = "flush"
    /\ \/ /\ frame_count' = WrappingAdd1(frame_count)
          /\ ascii_data' = <<0, 0>>
          /\ pc' = "poll"
          /\ UNCHANGED result
       \/ /\ Return("ErrIo")
          /\ UNCHANGED <<frame_count, ascii_data>>
    /\ UNCHANGED <<term, args, width, show_ui, key, iter, temp_frame, frame,
                   call_reads, call_seeks, cam_reads, display, call, ret>>

\* main.rs:429
ShowCursor ==
    /\ pc = "show_cursor"
    /\ \/ /\ term' = [term EXCEPT !.cursor_hidden = FALSE]
          /\ pc' = "leave_alt"
          /\ UNCHANGED result
       \/ /\ Return("ErrIo")
          /\ UNCHANGED term
    /\ UNCHANGED <<args, width, show_ui, key, iter, temp_frame, frame, call_reads,
                   call_seeks, cam_reads, ascii_data, display, frame_count, call, ret>>

\* main.rs:430
LeaveAlternateScreen ==
    /\ pc = "leave_alt"
    /\ \/ /\ term' = [term EXCEPT !.alt = FALSE]
          /\ pc' = "disable_raw"
          /\ UNCHANGED result
       \/ /\ Return("ErrIo")
          /\ UNCHANGED term
    /\ UNCHANGED <<args, width, show_ui, key, iter, temp_frame, frame, call_reads,
                   call_seeks, cam_reads, ascii_data, display, frame_count, call, ret>>

\* main.rs:431-432
DisableRawMode ==
    /\ pc = "disable_raw"
    /\ \/ /\ term' = [term EXCEPT !.raw = FALSE]
          /\ Return("Ok")
       \/ /\ Return("ErrIo")
          /\ UNCHANGED term
    /\ UNCHANGED <<args, width, show_ui, key, iter, temp_frame, frame, call_reads,
                   call_seeks, cam_reads, ascii_data, display, frame_count, call, ret>>

Next ==
    \/ EnableRawMode
    \/ EnterAlternateScreen
    \/ HideCursor
    \/ PollFails
    \/ PollNoEvent
    \/ KeyQuit
    \/ KeyMode
    \/ KeyCharset
    \/ KeyWiden
    \/ KeyNarrow
    \/ KeyToggleUi
    \/ OtherEvent
    \/ Read1
    \/ SeekRead2
    \/ StoreFrame
    \/ CheckFrame
    \/ CallAssignChars
    \/ DrawGrid
    \/ DrawUi
    \/ Flush
    \/ ShowCursor
    \/ LeaveAlternateScreen
    \/ DisableRawMode

Spec == Init /\ [][Next]_vars

(***************************************************************************)
(* The pure helpers, each under its own specification.  The session does   *)
(* not run in them: its variables rest at SessionIdle.                     *)
(***************************************************************************)
SessionIdle ==
    /\ pc = "idle"
    /\ result = "running"
    /\ term = TermRestored
    /\ args = [charset |-> "Default", mode |-> "Standard", width |-> 150, flip |-> FALSE]
    /\ width = args.width
    /\ show_ui = TRUE
    /\ key = "none"
    /\ iter = 0
    /\ temp_frame = EmptyFrame
    /\ frame = EmptyFrame
    /\ call_reads = 0
    /\ call_seeks = 0
    /\ cam_reads = 0
    /\ ascii_data = <<0, 0>>
    /\ display = 0

\* ---- CharSet::next, called again and again (main.rs:33-47) ----
InitCharSet ==
    /\ SessionIdle
    /\ frame_count = UsizeZero
    /\ \E c \in CharSets :
          /\ call = [start |-> c, calls |-> 0, seen |-> {}]
          /\ ret = c

CallNext ==
    /\ call.calls < Cardinality(CharSets)
    /\ ret' = CharSetNext(ret)
    /\ call' = [call EXCEPT !.calls = @ + 1, !.seen = @ \cup {ret'}]
    /\ UNCHANGED <<sessionVars, frame_count>>

NextCharSet == CallNext

SpecCharSet == InitCharSet /\ [][NextCharSet]_vars

\* ---- the Rainbow hue over consecutive frames (main.rs:293, 387, 425) ----
\* frame counters the runs start from: the first frames, the last counter whose
\* product by 5 is below 2^24, and the last counters before usize::MAX
StartCounters ==
    {UsizeOf(n) : n \in {0, 1, 3355443}} \cup {UsizeMaxMinus(n) : n \in 0 .. MaxTicks}

InitRainbow ==
    /\ SessionIdle
    /\ frame_count \in StartCounters
    /\ \E x \in 0 .. MaxGridX, y \in 0 .. MaxGridY :
          /\ call = [x |-> x, y |-> y, ticks |-> 0]
          /\ ret = [hue |-> RainbowHue(x, y, frame_count),
                    prev |-> RainbowHue(x, y, frame_count),
                    wrapped |-> FALSE]

\* one frame is over (main.rs:425) and the cell's colour is taken for the next
NextFrame ==
    /\ call.ticks < MaxTicks
    /\ frame_count' = WrappingAdd1(frame_count)
    /\ call' = [call EXCEPT !.ticks = @ + 1]
    /\ ret' = [hue |-> RainbowHue(call.x, call.y, frame_count'),
               prev |-> ret.hue,
               wrapped |-> (frame_count = UsizeMaxVal)]
    /\ UNCHANGED sessionVars

NextRainbow == NextFrame

SpecRainbow == InitRainbow /\ [][NextRainbow]_vars

\* ---- the glyph index of assign_chars (main.rs:212-214) ----
Luminances == 0 .. (255 * LumDenom)
CharCounts == {1} \cup {CharCount(c) : c \in CharSets}

InitGlyph ==
    /\ SessionIdle
    /\ frame_count = UsizeZero
    /\ \E n \in CharCounts, l1 \in Luminances, l2 \in Luminances :
          /\ l1 <= l2
          /\ call = [char_count |-> n, lum1 |-> l1, lum2 |-> l2]
    /\ ret = <<>>

MapGlyphs ==
    /\ ret = <<>>
    /\ ret' = <<GlyphIndex(call.lum1, call.char_count),
                GlyphIndex(call.lum2, call.char_count)>>
    /\ UNCHANGED <<sessionVars, frame_count, call>>

NextGlyph == MapGlyphs

SpecGlyph == InitGlyph /\ [][NextGlyph]_vars

\* ---- calculate_block_size, both versions ----
InitBlockSize ==
    /\ SessionIdle
    /\ frame_count = UsizeZero
    /\ \E f \in {"main", "utils"}, w \in 1 .. MaxImgW, t \in 1 .. MaxTargetW :
          call = [fn |-> f, img_width |-> w, width |-> t]
    /\ ret = <<>>

CallMainBlockSize ==
    /\ ret = <<>>
    /\ call.fn = "main"
    /\ ret' = CalculateBlockSize(call.img_width, call.width)
    /\ UNCHANGED <<sessionVars, frame_count, call>>

CallUtilsBlockSize ==
    /\ ret = <<>>
    /\ call.fn = "utils"
    /\ ret' = UtilsCalculateBlockSize(call.img_width, call.width)
    /\ UNCHANGED <<sessionVars, frame_count, call>>

NextBlockSize == CallMainBlockSize \/ CallUtilsBlockSize

SpecBlockSize == InitBlockSize /\ [][NextBlockSize]_vars

(***************************************************************************)
(* The block sampler of src/utils.rs.  A pixel is its three channels in    *)
(* the order the Mat stores them, <<pixel[0], pixel[1], pixel[2]>>, which  *)
(* is blue, green, red (utils.rs:29-31 and main.rs:208-210 read it so).    *)
(* A buffer is [w, h, base, dx]: the pixel at (y, x) is base with dx * x   *)
(* added to pixel[0] and dx * y to pixel[2]; dx = 0 is a uniform buffer.   *)
(* Luminances are in thousandths, the WEIGHTS being 299, 587 and 114.      *)
(***************************************************************************)
Pixel(buf, y, x) ==
    <<(buf.base[1] + buf.dx * x) % 256, buf.base[2], (buf.base[3] + buf.dx * y) % 256>>

RECURSIVE RowSum(_, _, _, _, _)
RowSum(buf, ch, y, x, x_end) ==
    IF x >= x_end THEN 0
    ELSE Pixel(buf, y, x)[ch] + RowSum(buf, ch, y, x + 1, x_end)

RECURSIVE RectSum(_, _, _, _, _, _)
RectSum(buf, ch, y, y_end, x0, x_end) ==
    IF y >= y_end THEN 0
    ELSE RowSum(buf, ch, y, x0, x_end) + RectSum(buf, ch, y + 1, y_end, x0, x_end)

\* BlockSample::default() (utils.rs:6-12)
DefaultSample == [lum |-> 0, r |-> 0, g |-> 0, b |-> 0]

\* block_color (utils.rs:84-126): "Ok" with the sample written, "Err" when at_2d
\* is asked for a row the Mat does not have, "DivByZero" when the sums are divided
\* by a count of 0 (an integer division by zero panics)
BlockColor(buf, x0, y0, w, h) ==
    LET img_w == buf.w
        img_h == buf.w            \* utils.rs:93 reads .width for the height
        y_end == Min(y0 + h, img_h)
        x_end == Min(x0 + w, img_w)
        rows == Max(y_end - y0, 0)
        cols == Max(x_end - x0, 0)
        count == rows * cols
        r == RectSum(buf, 1, y0, y_end, x0, x_end) \div count
        g == RectSum(buf, 2, y0, y_end, x0, x_end) \div count
        b == RectSum(buf, 3, y0, y_end, x0, x_end) \div count
    IN  IF count > 0 /\ y_end > buf.h
        THEN [status |-> "Err", count |-> count, sample |-> DefaultSample]
        ELSE IF count = 0
        THEN [status |-> "DivByZero", count |-> count, sample |-> DefaultSample]
        ELSE [status |-> "Ok", count |-> count,
              sample |-> [lum |-> 299 * r + 587 * g + 114 * b,
                          r |-> r, g |-> g,
                          b |-> r]]           \* utils.rs:123 stores r in .b

\* pixel[0], pixel[1], pixel[2] of the buffers' base colours
BaseColours == {<<200, 150, 100>>, <<30, 20, 10>>, <<255, 255, 255>>}

InitSampler ==
    /\ SessionIdle
    /\ frame_count = UsizeZero
    /\ \E w \in 1 .. MaxBufW, h \in 1 .. MaxBufH, c \in BaseColours, d \in {0, 10},
          bw \in 1 .. MaxBlock, bh \in 1 .. MaxBlock :
          call = [buf |-> [w |-> w, h |-> h, base |-> c, dx |-> d],
                  block_size |-> <<bw, bh>>,
                  x0 |-> 0, y0 |-> 0]
    /\ ret = [status |-> "start", count |-> 0, sample |-> DefaultSample,
              x0 |-> 0, y0 |-> 0, blocks |-> 0]

\* get_blocks_data (utils.rs:128-157), one block_color call of its loops; an
\* Err leaves through the `?`, a panic unwinds
VisitBlock ==
    /\ ret.status \in {"start", "Ok"}
    /\ call.y0 < call.buf.h
    /\ LET got == BlockColor(call.buf, call.x0, call.y0,
                             call.block_size[1], call.block_size[2])
       IN  ret' = [status |-> got.status, count |-> got.count, sample |-> got.sample,
                   x0 |-> call.x0, y0 |-> call.y0,
                   blocks |-> IF got.status = "Ok" THEN ret.blocks + 1 ELSE ret.blocks]
    /\ call' = IF call.x0 + call.block_size[1] < call.buf.w
               THEN [call EXCEPT !.x0 = @ + call.block_size[1]]
               ELSE [call EXCEPT !.x0 = 0, !.y0 = @ + call.block_size[2]]
    /\ UNCHANGED <<sessionVars, frame_count>>

NextSampler == VisitBlock

SpecSampler == InitSampler /\ [][NextSampler]_vars

(***************************************************************************)
(* The claims.                                                             *)
(***************************************************************************)
TeardownPcs == {"show_cursor", "leave_alt", "disable_raw", "done"}
RenderPcs == {"assign", "draw", "ui", "flush"}

\* C1: in a session started with a width >= 10, every widen key adds 2 to the
\* width unless it is clamped to 500, every narrow key takes 2 off unless it is
\* clamped to 10, and the width after the key lies in [10, 500].
C1_WidthStepsStayInRange ==
    [][(args.width >= MinWidth /\ pc = "poll" /\ key' \in WidenKeys \cup NarrowKeys)
          => /\ width' \in MinWidth .. MaxWidth
             /\ key' \in WidenKeys => width' \in {width + WidthStep, MaxWidth}
             /\ key' \in NarrowKeys => width' \in {width - WidthStep, MinWidth}]_vars

\* C2: in an iteration whose get_frame_data call read the capture source twice
\* and got an empty frame both times, the loop does not go on to assign_chars,
\* the drawing of the grid, the overlay or the flush.
C2_NoFrameNoRender ==
    (call_reads = 2 /\ IsEmpty(temp_frame)) => pc \notin RenderPcs

\* C3: when run_terminal_mode returns the error of get_frame_data or of
\* assign_chars, the terminal has been restored: cursor shown, alternate screen
\* left, raw mode off.
C3_ErrorTearsDown ==
    result \in {"ErrCapture", "ErrRender"} => term = TermRestored

\* C4: once a quit key ('q' or Esc) has been consumed the loop is left for the
\* teardown (which starts at the cursor::Show), no further frame is read from the
\* capture source, no further grid is built or written to stdout, and a return
\* of Ok leaves the terminal restored.
C4_QuitEndsLoop ==
    [][key' \in QuitKeys
          => /\ pc' \in TeardownPcs
             /\ key \notin QuitKeys => pc' = "show_cursor"
             /\ cam_reads' = cam_reads
             /\ display' = display
             /\ ascii_data' = ascii_data
             /\ frame' = frame
             /\ result' = "Ok" => term' = TermRestored]_vars

C4_Witness ==
    /\ key \in QuitKeys
    /\ pc = "done"
    /\ result = "Ok"
    /\ term = TermRestored
    /\ display > 0

\* C5: CharSet::next is one cycle over the 11 variants: from any variant, the
\* first 11 calls return 11 different variants (so each variant once) and the
\* 11th returns the variant started from.
C5_NextIsOneCycle ==
    /\ Cardinality(CharSets) = 11
    /\ Cardinality(call.seen) = call.calls
    /\ call.calls = Cardinality(CharSets) => (ret = call.start /\ call.seen = CharSets)

C5_Witness ==
    /\ call.start = "Testing2"
    /\ call.calls = Cardinality(CharSets)
    /\ ret = "Testing2"

\* C6, as claimed: when the frame counter wraps from usize::MAX to 0, the
\* Rainbow hue at a grid position is the hue at usize::MAX plus 5, mod 360.
C6_WrapKeepsHueStep ==
    ret.wrapped => ret.hue = (ret.prev + HueStep) % HuePeriod

\* C6, amended: when the frame counter wraps from usize::MAX to 0, the Rainbow
\* hue at the grid position (x, y) is (2x + 4y) mod 360, the hue of frame 0.
C6_WrapRestartsHue ==
    ret.wrapped => /\ frame_count = UsizeZero
                   /\ ret.hue = (2 * call.x + 4 * call.y) % HuePeriod

C6_Witness ==
    /\ ret.wrapped
    /\ call.x = 1
    /\ call.y = 2
    /\ ret.hue = 10
    /\ ret.prev = 80

\* C7: for every luminance in [0, 255] and every charset length n >= 1 the glyph
\* index of assign_chars lies in [0, n - 1], and of two luminances the smaller
\* never gets the larger index.
C7_GlyphIndexInRangeMonotone ==
    ret # <<>> => /\ ret[1] \in 0 .. (call.char_count - 1)
                  /\ ret[2] \in 0 .. (call.char_count - 1)
                  /\ ret[1] <= ret[2]

C7_Witness ==
    /\ ret # <<>>
    /\ call.char_count = 9
    /\ call.lum1 < call.lum2
    /\ ret[1] = 0
    /\ ret[2] = call.char_count - 1

\* C8: calculate_block_size (main.rs and utils.rs) returns a block width >= 1
\* and a block height >= 1 for every source width >= 1 and target width >= 1.
C8_BlockSizeAtLeastOne ==
    ret # <<>> => (ret[1] >= 1 /\ ret[2] >= 1)

C8_Witness ==
    /\ ret # <<>>
    /\ call.fn = "main"
    /\ call.img_width < call.width
    /\ ret = <<1, 2>>

\* C9: block_color over a block that lies inside a buffer of one colour (r, g, b)
\* yields a sample with that r, g and b and the luminance
\* 0.299 r + 0.587 g + 0.114 b (here in thousandths).
C9_UniformBlockKeepsColour ==
    (/\ ret.status # "start"
     /\ call.buf.dx = 0
     /\ ret.x0 + call.block_size[1] <= call.buf.w
     /\ ret.y0 + call.block_size[2] <= call.buf.h)
        => /\ ret.status = "Ok"
           /\ ret.sample.r = call.buf.base[3]
           /\ ret.sample.g = call.buf.base[2]
           /\ ret.sample.b = call.buf.base[1]
           /\ ret.sample.lum = 299 * call.buf.base[3] + 587 * call.buf.base[2]
                               + 114 * call.buf.base[1]

\* C10: every block get_blocks_data visits has at least one pixel once
\* block_color has clipped it, so block_color never divides by a count of 0.
C10_VisitedBlockHasPixels ==
    ret.status # "start" => (ret.count >= 1 /\ ret.status # "DivByZero")

\* C11, as claimed: the block height calculate_block_size returns is
\* max(1, round(block_w / 0.5)) of the rounded block width it returns, that is
\* exactly twice the returned width.
C11_HeightIsTwiceWidth ==
    ret # <<>> => ret[2] = Max(1, 2 * ret[1])

\* C11, amended: the block height is rounded from twice the unrounded quotient
\* max(1, w / t), so it is twice the returned width or one off it, and it is
\* exactly twice the returned width when t divides w.
C11_HeightWithinOneOfTwiceWidth ==
    ret # <<>> => /\ ret[2] - 2 * ret[1] \in {-1, 0, 1}
                  /\ call.img_width % call.width = 0 => ret[2] = 2 * ret[1]

C11_Witness ==
    /\ ret = <<2, 3>>
    /\ call.fn = "main"
    /\ call.img_width = 3
    /\ call.width = 2

\* C12: one get_frame_data call reads the capture source at most twice; it
\* seeks to frame 0 only after its first read came back empty, and with the seek
\* goes its second read; when that read is empty too the call returns Ok with
\* no third read and with `frame` as it was.
C12_AtMostTwoReadsOneSeek ==
    [][/\ call_reads' <= 2
       /\ call_seeks' <= 1
       /\ call_seeks' > call_seeks
             => (call_reads = 1 /\ IsEmpty(temp_frame) /\ call_reads' = 2)
       /\ (pc = "read2" /\ pc' # "done" /\ IsEmpty(temp_frame'))
             => (pc' = "check" /\ frame' = frame /\ result' = "running")
       /\ (pc = "check" /\ call_reads = 2 /\ IsEmpty(temp_frame))
             => (call_reads' = 2 /\ cam_reads' = cam_reads /\ frame' = frame)]_vars

C12_Witness ==
    /\ pc = "check"
    /\ result = "running"
    /\ call_reads = 2
    /\ call_seeks = 1
    /\ IsEmpty(temp_frame)
    /\ ~IsEmpty(frame)

\* C13: the configuration (mode, charset, width, UI flag) changes only in the
\* poll step that opens an iteration, by the one key that step consumed and in
\* the one field that key stands for, and before the iteration's first read of
\* the capture source; an iteration whose poll found no event leaves the
\* configuration as it was.
C13_OneEventBeforeFrame ==
    [][/\ <<args, width, show_ui>>' # <<args, width, show_ui>>
             => /\ pc = "poll"
                /\ pc' = "read1"
                /\ iter' = iter + 1
                /\ cam_reads' = cam_reads
                /\ key' \in {"m", "c", "h"} \cup WidenKeys \cup NarrowKeys
                /\ key' = "m" => <<args.charset, width, show_ui>>' = <<args.charset, width, show_ui>>
                /\ key' = "c" => <<args.mode, width, show_ui>>' = <<args.mode, width, show_ui>>
                /\ key' = "h" => <<args, width>>' = <<args, width>>
                /\ key' \in WidenKeys \cup NarrowKeys => <<args, show_ui>>' = <<args, show_ui>>
       /\ iter' # iter => (pc = "poll" /\ iter' = iter + 1)
       /\ pc = "read1" => iter' = iter
       /\ (pc = "poll" /\ key' = "none")
             => <<args, width, show_ui>>' = <<args, width, show_ui>>]_vars

\* second iteration, no event pending: the mode set by the 'm' of the first
\* iteration is still there when the frame of the second is stored
C13_Witness ==
    /\ iter = 2
    /\ key = "none"
    /\ pc = "store"
    /\ args.mode = "Grayscale"
    /\ cam_reads >= 2

====
